---- MODULE Spec2Model ----
(***************************************************************************)
(* Model of fgcugl (src/fgcugl.cpp): a thin immediate-mode 2D drawing      *)
(* layer over GLFW / fixed-function OpenGL.                                *)
(*                                                                         *)
(* The program state is the static window handle s_window plus the part of *)
(* the GLFW / OpenGL backend state the library drives: whether GLFW is     *)
(* initialised, the live windows, the current context, the viewport and    *)
(* projection, the key states and the current colour.  The variable `last` *)
(* is a history variable: the most recent library call, its arguments and  *)
(* the backend calls it issued.                                            *)
(***************************************************************************)
EXTENDS Integers, Sequences, FiniteSets, TLC

VARIABLES
    glfwInitialized,    \* GLFW library initialised (glfwInit / glfwTerminate)
    s_window,           \* static GLFWwindow* s_window
    liveWindows,        \* window handles GLFW currently owns
    currentContext,     \* window whose OpenGL context is current, or NULL
    viewport,           \* glViewport extent of the current context, or NoConfig
    projection,         \* glOrtho extent of the current context, or NoConfig
    keyState,           \* set of keys GLFW reports as GLFW_PRESS
    currentColor,       \* glColor3f state: <<red, green, blue>>, each n/255
    last                \* most recent library call and what it issued

vars == <<glfwInitialized, s_window, liveWindows, currentContext, viewport,
          projection, keyState, currentColor, last>>

windowVars == <<glfwInitialized, s_window, liveWindows, currentContext,
                viewport, projection>>

-----------------------------------------------------------------------------
(* Bounds *)

MaxWindows == 2         \* window handles the windowing system can hand out
MaxDim == 2             \* window widths / heights range over 1..MaxDim
MaxEvents == 1          \* key events one glfwPollEvents call processes
MaxHigh == 1            \* colour arguments carry bits 24..30 up to MaxHigh
MaxSides == 11          \* drawCircle side counts range over 0..MaxSides
MaxRadius == 2          \* drawCircle radii range over 0..MaxRadius
MaxSize == 2            \* drawText size multipliers range over 1..MaxSize

-----------------------------------------------------------------------------
(* Window lifecycle: openWindow, cleanup, framebuffer_size_callback *)

NULL == 0

Handles == 1..MaxWindows

Dims == 1..MaxDim

NoConfig == <<>>

\* glfwInit(): returns GLFW_TRUE at once when the library is already
\* initialised, otherwise the platform decides (initOK).
glfwInitResult(initOK) == glfwInitialized \/ initOK

\* the failure paths of openWindow never reach glfwMakeContextCurrent
\* or the viewport / projection setup
OpenWindowFailed(how) ==
    [op |-> "openWindow", ok |-> FALSE, how |-> how,
     madeCurrent |-> FALSE, configured |-> FALSE]

\* openWindow(width, height, title)
openWindow(width, height, initOK, createOK) ==
    IF ~glfwInitResult(initOK)
    THEN \* if (!glfwInit()) return;
         /\ last' = OpenWindowFailed("init")
         /\ UNCHANGED <<windowVars, keyState, currentColor>>
    ELSE IF createOK /\ Handles \ liveWindows # {}
    THEN \E h \in Handles \ liveWindows :
         /\ glfwInitialized' = TRUE
         /\ s_window' = h
         /\ liveWindows' = liveWindows \cup {h}
         /\ currentContext' = h
         /\ viewport' = <<width, height>>
         /\ projection' = <<width, height>>
         /\ last' = [op |-> "openWindow", ok |-> TRUE, how |-> "opened",
                     madeCurrent |-> TRUE, configured |-> TRUE]
         /\ UNCHANGED <<keyState, currentColor>>
    ELSE \* s_window = NULL; glfwTerminate(); return;
         /\ s_window' = NULL
         /\ glfwInitialized' = FALSE
         /\ liveWindows' = {}
         /\ currentContext' = NULL
         /\ viewport' = NoConfig
         /\ projection' = NoConfig
         /\ keyState' = {}
         /\ last' = OpenWindowFailed("create")
         /\ UNCHANGED currentColor

OpenWindow ==
    \E width \in Dims, height \in Dims, initOK \in BOOLEAN, createOK \in BOOLEAN :
        openWindow(width, height, initOK, createOK)

\* cleanup(): glfwTerminate() destroys every window and context; s_window
\* is not assigned.
Cleanup ==
    /\ glfwInitialized' = FALSE
    /\ liveWindows' = {}
    /\ currentContext' = NULL
    /\ viewport' = NoConfig
    /\ projection' = NoConfig
    /\ keyState' = {}
    /\ last' = [op |-> "cleanup"]
    /\ UNCHANGED <<s_window, currentColor>>

\* framebuffer_size_callback(window, width, height), registered on the
\* window openWindow created; GLFW calls it for a live window.
FramebufferSizeCallback ==
    \E width \in Dims, height \in Dims :
        /\ currentContext # NULL
        /\ currentContext \in liveWindows
        /\ viewport' = <<width, height>>
        /\ last' = [op |-> "framebuffer_size_callback"]
        /\ UNCHANGED <<glfwInitialized, s_window, liveWindows, currentContext,
                       projection, keyState, currentColor>>

\* windowPaint(): glfwSwapBuffers(s_window).  The call is only defined for a
\* window GLFW still owns; `valid` records whether s_window was one.
WindowPaint ==
    /\ last' = [op |-> "windowPaint", window |-> s_window,
                valid |-> s_window \in liveWindows]
    /\ UNCHANGED <<windowVars, keyState, currentColor>>

-----------------------------------------------------------------------------
(* Keyboard: getEvents, getKey *)

Keys == {"GLFW_KEY_ESCAPE", "GLFW_KEY_X", "GLFW_KEY_W", "GLFW_KEY_S",
         "GLFW_KEY_A", "GLFW_KEY_D", "GLFW_KEY_UP", "GLFW_KEY_DOWN",
         "GLFW_KEY_LEFT", "GLFW_KEY_RIGHT", "GLFW_KEY_Q"}

\* glfwGetKey(s_window, k) == GLFW_PRESS
glfwGetKeyPressed(pressed, k) == k \in pressed

\* getKey with the X test ahead of the ESC test
getKeyXFirst(pressed) ==
    IF glfwGetKeyPressed(pressed, "GLFW_KEY_X") THEN 88
    ELSE IF glfwGetKeyPressed(pressed, "GLFW_KEY_ESCAPE") THEN 27
    ELSE IF glfwGetKeyPressed(pressed, "GLFW_KEY_W") THEN 87
    ELSE IF glfwGetKeyPressed(pressed, "GLFW_KEY_S") THEN 83
    ELSE IF glfwGetKeyPressed(pressed, "GLFW_KEY_A") THEN 65
    ELSE IF glfwGetKeyPressed(pressed, "GLFW_KEY_D") THEN 68
    ELSE IF glfwGetKeyPressed(pressed, "GLFW_KEY_UP") THEN 87
    ELSE IF glfwGetKeyPressed(pressed, "GLFW_KEY_DOWN") THEN 83
    ELSE IF glfwGetKeyPressed(pressed, "GLFW_KEY_LEFT") THEN 65
    ELSE IF glfwGetKeyPressed(pressed, "GLFW_KEY_RIGHT") THEN 68
    ELSE 0

\* unsigned char getKey(): the if / else-if chain, ASCII codes as integers
getKey(pressed) ==
    IF glfwGetKeyPressed(pressed, "GLFW_KEY_ESCAPE") THEN 27
    ELSE IF glfwGetKeyPressed(pressed, "GLFW_KEY_X") THEN 88
    ELSE IF glfwGetKeyPressed(pressed, "GLFW_KEY_W") THEN 87
    ELSE IF glfwGetKeyPressed(pressed, "GLFW_KEY_S") THEN 83
    ELSE IF glfwGetKeyPressed(pressed, "GLFW_KEY_A") THEN 65
    ELSE IF glfwGetKeyPressed(pressed, "GLFW_KEY_D") THEN 68
    ELSE IF glfwGetKeyPressed(pressed, "GLFW_KEY_UP") THEN 87
    ELSE IF glfwGetKeyPressed(pressed, "GLFW_KEY_DOWN") THEN 83
    ELSE IF glfwGetKeyPressed(pressed, "GLFW_KEY_LEFT") THEN 65
    ELSE IF glfwGetKeyPressed(pressed, "GLFW_KEY_RIGHT") THEN 68
    ELSE 0

\* getKey() polls the window s_window; the call is defined while GLFW owns
\* that window.
GetKey ==
    /\ s_window \in liveWindows
    /\ last' = [op |-> "getKey", pressed |-> keyState, ret |-> getKey(keyState)]
    /\ UNCHANGED <<windowVars, keyState, currentColor>>

KeyEventSets == {T \in SUBSET Keys : Cardinality(T) <= MaxEvents}

\* getEvents(): glfwPollEvents() processes the pending key events, each a
\* press or release of one key.
GetEvents ==
    /\ glfwInitialized
    /\ \E T \in KeyEventSets :
           keyState' = (keyState \ T) \cup (T \ keyState)
    /\ last' = [op |-> "getEvents"]
    /\ UNCHANGED <<windowVars, currentColor>>

-----------------------------------------------------------------------------
(* Colour: setColor *)

\* (color >> n) & 0xFF on an unsigned int
ShiftMask(color, n) == (color \div (2 ^ n)) % 256

\* setColor with the red and blue shifts exchanged
setColorBGR(color) ==
    <<ShiftMask(color, 0), ShiftMask(color, 8), ShiftMask(color, 16)>>

\* setColor(color): the three channels handed to glColor3f, each as the
\* numerator n of n / 255.0
setColor(color) ==
    <<ShiftMask(color, 16), ShiftMask(color, 8), ShiftMask(color, 0)>>

ChannelValues == {0, 64, 128, 255}

HighValues == 0..MaxHigh

\* colour arguments: bits 24..30, red, green, blue packed high to low
PackedColor(hi, r, g, b) == hi * 16777216 + r * 65536 + g * 256 + b

Colors ==
    {PackedColor(hi, r, g, b) : hi \in HighValues, r \in ChannelValues,
                                g \in ChannelValues, b \in ChannelValues}

SetColor ==
    \E color \in Colors :
        /\ currentContext # NULL
        /\ currentColor' = setColor(color)
        /\ last' = [op |-> "setColor", color |-> color]
        /\ UNCHANGED <<windowVars, keyState>>

-----------------------------------------------------------------------------
(* Primitives: drawPoint, drawCircle *)

White == 16777215

DrawColors == {White, 16744512, 255}

Xs == {0, 3}

Ys == {0, 10}

\* a vertex handed to glVertexPointer; finite = FALSE is a NaN coordinate pair
Vertex(x, y) == [x |-> x, y |-> y, finite |-> TRUE]

NaNVertex == [x |-> 0, y |-> 0, finite |-> FALSE]

\* drawPoint(x, y, size, color, smooth): setColor(color), then one
\* glDrawArrays(GL_POINTS, 0, 1) in that colour
drawPoint(x, y, size, color, smooth) ==
    [mode |-> "GL_POINTS", vertices |-> <<Vertex(x, y)>>, count |-> 1,
     pointSize |-> size, smooth |-> smooth, color |-> setColor(color)]

DrawPoint ==
    \E x \in Xs \cup {1}, y \in Ys, size \in 1..MaxSize, color \in DrawColors,
       smooth \in BOOLEAN :
        /\ currentContext # NULL
        /\ currentColor' = setColor(color)
        /\ last' = [op |-> "drawPoint", x |-> x, y |-> y, size |-> size,
                    color |-> color,
                    calls |-> <<drawPoint(x, y, size, color, smooth)>>]
        /\ UNCHANGED <<windowVars, keyState>>

\* Fixed-point trigonometry.  Angles are counted in units of 1/FullTurn of a
\* turn (15 degrees), values in units of 1/Scale; drawCircle's vertices are
\* in units of 1/Scale pixel.
FullTurn == 24

Scale == 1000

SinTable == <<0, 259, 500, 707, 866, 966, 1000>>

Sin(a) ==
    LET q == a % FullTurn
    IN  IF q <= 6 THEN SinTable[q + 1]
        ELSE IF q <= 12 THEN SinTable[12 - q + 1]
        ELSE IF q <= 18 THEN -SinTable[q - 12 + 1]
        ELSE -SinTable[24 - q + 1]

Cos(a) == Sin(a + 6)

\* side counts whose angular step is a whole number of angle units
SideCounts == {n \in 0..MaxSides : n = 0 \/ FullTurn % n = 0}

Radii == 0..MaxRadius

\* numberOfVertices without the closing rim vertex
NumberOfVerticesOpen(sides) == sides + 1

\* GLint numberOfVertices = sides + 2;
NumberOfVertices(sides) == sides + 2

\* the rim angle with the step taken over sides + 1
RimAngleWide(i, sides) == (i * FullTurn) \div (sides + 1)

\* i * doublePi / sides, for sides # 0
RimAngle(i, sides) == (i * FullTurn) \div sides

\* circleVerticesX[i], circleVerticesY[i] for i >= 1, sides # 0
RimVertex(x, y, radius, i, sides) ==
    Vertex(x * Scale + radius * Cos(RimAngle(i, sides)),
           y * Scale + radius * Sin(RimAngle(i, sides)))

\* what a rim vertex can be when the angle is i * doublePi / 0: NaN under
\* IEEE arithmetic, any point of the rim otherwise
DivZeroOutcomes(x, y, radius) ==
    {NaNVertex} \cup
    {Vertex(x * Scale + radius * Cos(a), y * Scale + radius * Sin(a)) :
        a \in 0..(FullTurn - 1)}

\* the rim loop "for (i = 1; i < numberOfVertices; i++)" divides by sides
DividesByZero(sides) == sides = 0 /\ NumberOfVertices(sides) > 1

\* drawCircle(x, y, radius, color, sides); zeroDiv is the outcome of the
\* division by zero when there is one
drawCircle(x, y, radius, color, sides, zeroDiv) ==
    LET n == NumberOfVertices(sides)
        allCircleVertices ==
            [i \in 0..(n - 1) |->
                IF i = 0 THEN Vertex(x * Scale, y * Scale)
                ELSE IF sides = 0 THEN zeroDiv
                ELSE RimVertex(x, y, radius, i, sides)]
    IN  [mode |-> "GL_TRIANGLE_FAN", vertices |-> allCircleVertices,
         count |-> n, color |-> setColor(color)]

DrawCircle ==
    \E x \in Xs, y \in Ys, radius \in Radii, color \in DrawColors,
       sides \in SideCounts :
      \E zeroDiv \in IF DividesByZero(sides) THEN DivZeroOutcomes(x, y, radius)
                     ELSE {NaNVertex} :
        /\ currentContext # NULL
        /\ currentColor' = setColor(color)
        /\ last' = [op |-> "drawCircle", x |-> x, y |-> y, radius |-> radius,
                    color |-> color, sides |-> sides,
                    divByZero |-> DividesByZero(sides),
                    angles |-> IF sides = 0 THEN <<>>
                               ELSE [i \in 1..(NumberOfVertices(sides) - 1)
                                        |-> RimAngle(i, sides)],
                    calls |-> <<drawCircle(x, y, radius, color, sides, zeroDiv)>>]
        /\ UNCHANGED <<windowVars, keyState>>

-----------------------------------------------------------------------------
(* Text: drawText *)

\* CHARACTERS[code - 32]: 8 rows of 8 bits per glyph, row 0 first.  The
\* glyphs of ' ', 'L' and '_'.
CHARACTERS ==
    (0  :> <<0, 0, 0, 0, 0, 0, 0, 0>>) @@
    (44 :> <<96, 96, 96, 96, 96, 96, 126, 0>>) @@
    (63 :> <<0, 0, 0, 0, 0, 0, 0, 255>>)

\* texts drawn: "", "L", "_", " L", "L_", "_ L"
Texts == {<<>>, <<76>>, <<95>>, <<32, 76>>, <<76, 95>>, <<95, 32, 76>>}

\* (x, y) arguments of drawText
TextOrigins == {<<0, 0>>, <<3, 10>>}

TextColors == {White, 16744512}

\* the bit test on the low bit: byte & 0x01
LowBitSet(byte) == byte % 2 = 1

\* byte & 0x80
HighBitSet(byte) == (byte \div 128) % 2 = 1

\* byte = byte << 1, on a GLubyte
ShiftLeft(byte) == (byte * 2) % 256

\* ypos = y + 8;
StartYpos(y) == y + 8

\* xpos += size;
AdvanceXpos(xpos, size) == xpos + size

\* ypos -= size;
AdvanceYpos(ypos, size) == ypos - size

\* the ys / xs loops: drawPoint(xs, ys, 1) for ys = ypos .. < ypos + size,
\* xs = xpos .. < xpos + size; drawPoint's colour and smooth take their
\* defaults (White, true)
BlockPoints(xpos, ypos, size, c, i, b) ==
    [k \in 1..(size * size) |->
        [call |-> drawPoint(xpos + ((k - 1) % size), ypos + ((k - 1) \div size),
                            1, White, TRUE),
         c |-> c, i |-> i, b |-> b]]

\* the value of byte on entry to iteration b of the b loop
RECURSIVE ByteAt(_, _)
ByteAt(byte, b) == IF b = 0 THEN byte ELSE ShiftLeft(ByteAt(byte, b - 1))

\* the value of xpos on entry to iteration b of the b loop (xpos = x before
\* iteration 0); b = 8 is xpos when the loop ends
RECURSIVE XposAt(_, _, _)
XposAt(x, size, b) ==
    IF b = 0 THEN x ELSE AdvanceXpos(XposAt(x, size, b - 1), size)

\* the value of ypos on entry to iteration i of the i loop
RECURSIVE YposAt(_, _, _)
YposAt(y, size, i) ==
    IF i = 0 THEN StartYpos(y) ELSE AdvanceYpos(YposAt(y, size, i - 1), size)

\* the cursor advanced by a fixed 8 pixels
NextCharXFixed(x, xpos) == x + 8

\* x = xpos;
NextCharX(x, xpos) == xpos

\* the value of x on entry to iteration c of the c loop
RECURSIVE CharX(_, _, _)
CharX(x, size, c) ==
    IF c = 0 THEN x
    ELSE NextCharX(CharX(x, size, c - 1),
                   XposAt(CharX(x, size, c - 1), size, 8))

\* the results of the 8 iterations of a loop, in order
Concat8(F(_)) == F(0) \o F(1) \o F(2) \o F(3) \o F(4) \o F(5) \o F(6) \o F(7)

\* the b loop of row i of character c, whose cell starts at x
RowPoints(x, y, glyph, size, c, i) ==
    Concat8(LAMBDA b :
                IF HighBitSet(ByteAt(glyph[i + 1], b))
                THEN BlockPoints(XposAt(x, size, b), YposAt(y, size, i),
                                 size, c, i, b)
                ELSE <<>>)

\* the i loop of character c
CharPoints(x, y, glyph, size, c) ==
    Concat8(LAMBDA i : RowPoints(x, y, glyph, size, c, i))

\* the c loop, characters 0 .. n - 1
RECURSIVE TextPoints(_, _, _, _, _)
TextPoints(x, y, text, size, n) ==
    IF n = 0 THEN <<>>
    ELSE TextPoints(x, y, text, size, n - 1) \o
         CharPoints(CharX(x, size, n - 1), y,
                    CHARACTERS[text[n] - 32], size, n - 1)

\* drawText(x, y, text, size, color): the points drawn, in order, and per
\* character the cursor (x, ypos) the character started from
drawText(x, y, text, size, color) ==
    [points |-> TextPoints(x, y, text, size, Len(text)),
     cursors |-> [k \in 1..Len(text) |->
                    [x |-> CharX(x, size, k - 1), ypos |-> YposAt(y, size, 0)]]]

DrawText ==
    \E origin \in TextOrigins, text \in Texts, size \in 1..MaxSize,
       color \in TextColors :
        LET x == origin[1]
            y == origin[2]
            out == drawText(x, y, text, size, color)
        IN  /\ currentContext # NULL
            /\ currentColor' = IF out.points = <<>> THEN setColor(color)
                               ELSE out.points[Len(out.points)].call.color
            /\ last' = [op |-> "drawText", x |-> x, y |-> y, text |-> text,
                        size |-> size, color |-> color,
                        points |-> out.points, cursors |-> out.cursors]
            /\ UNCHANGED <<windowVars, keyState>>

-----------------------------------------------------------------------------
(* Initial state: static storage is zero-initialised, GLFW not initialised *)

Init ==
    /\ glfwInitialized = FALSE
    /\ s_window = NULL
    /\ liveWindows = {}
    /\ currentContext = NULL
    /\ viewport = NoConfig
    /\ projection = NoConfig
    /\ keyState = {}
    /\ currentColor = <<255, 255, 255>>
    /\ last = [op |-> "none"]

\* the state right after a successful openWindow(1, 1, title)
InitOpened ==
    /\ glfwInitialized = TRUE
    /\ s_window = 1
    /\ liveWindows = {1}
    /\ currentContext = 1
    /\ viewport = <<1, 1>>
    /\ projection = <<1, 1>>
    /\ keyState = {}
    /\ currentColor = <<255, 255, 255>>
    /\ last = [op |-> "openWindow", ok |-> TRUE, how |-> "opened",
               madeCurrent |-> TRUE, configured |-> TRUE]

NextWindow == OpenWindow \/ Cleanup \/ FramebufferSizeCallback \/ WindowPaint

SpecWindow == Init /\ [][NextWindow]_vars

-----------------------------------------------------------------------------
(* Properties *)

Min(S) == CHOOSE m \in S : \A n \in S : m <= n

Abs(n) == IF n < 0 THEN -n ELSE n

Precedence ==
    <<"GLFW_KEY_ESCAPE", "GLFW_KEY_X", "GLFW_KEY_W", "GLFW_KEY_S",
      "GLFW_KEY_A", "GLFW_KEY_D", "GLFW_KEY_UP", "GLFW_KEY_DOWN",
      "GLFW_KEY_LEFT", "GLFW_KEY_RIGHT">>

KeyCode ==
    [k \in Keys |->
        CASE k = "GLFW_KEY_ESCAPE" -> 27
          [] k \in {"GLFW_KEY_X"} -> 88
          [] k \in {"GLFW_KEY_W", "GLFW_KEY_UP"} -> 87
          [] k \in {"GLFW_KEY_S", "GLFW_KEY_DOWN"} -> 83
          [] k \in {"GLFW_KEY_A", "GLFW_KEY_LEFT"} -> 65
          [] k \in {"GLFW_KEY_D", "GLFW_KEY_RIGHT"} -> 68
          [] OTHER -> 0]

\* C8: getKey returns the code of the first pressed key in the order ESC, X,
\* W, S, A, D, UP, DOWN, LEFT, RIGHT, and 0 exactly when none of the ten keys
\* is pressed.
C8_KeyPrecedence ==
    last.op = "getKey" =>
        LET hits == {n \in 1..Len(Precedence) : Precedence[n] \in last.pressed}
        IN  /\ (last.ret = 0) <=> (hits = {})
            /\ hits # {} => last.ret = KeyCode[Precedence[Min(hits)]]

\* C8 witness: X, D and UP pressed without ESC, and getKey returned 'X'
C8_Witness ==
    /\ last.op = "getKey"
    /\ {"GLFW_KEY_X", "GLFW_KEY_D", "GLFW_KEY_UP"} \subseteq last.pressed
    /\ "GLFW_KEY_ESCAPE" \notin last.pressed
    /\ last.ret = 88

\* C2: setColor sets red = bits 16-23, green = bits 8-15, blue = bits 0-7 of
\* its argument whatever bits 24 and up are; 0xFF8040 gives (255, 128, 64),
\* 0 gives (0, 0, 0) and 0xFFFFFF gives (255, 255, 255).
C2_ColorDecode ==
    last.op = "setColor" =>
        /\ \A hi \in HighValues, r \in ChannelValues, g \in ChannelValues,
              b \in ChannelValues :
                last.color = PackedColor(hi, r, g, b)
                    => currentColor = <<r, g, b>>
        /\ last.color = 16744512 => currentColor = <<255, 128, 64>>
        /\ last.color = 0 => currentColor = <<0, 0, 0>>
        /\ last.color = 16777215 => currentColor = <<255, 255, 255>>

\* C2 witness: 0x01FF8040, with a bit above bit 23 set, decoded to
\* (255, 128, 64)
C2_Witness ==
    /\ last.op = "setColor"
    /\ last.color = 16777216 + 16744512
    /\ currentColor = <<255, 128, 64>>

\* C1: for radius > 0 and sides n >= 3, drawCircle submits n + 2 vertices to
\* the triangle-fan call, vertex 0 is the centre and rim vertex i is the
\* sample at angle i * 2 pi / n, at distance radius from the centre (to
\* within the table's rounding).
C1_CircleVertices ==
    (last.op = "drawCircle" /\ last.radius > 0 /\ last.sides >= 3) =>
        LET n == last.sides
            call == last.calls[1]
            v == call.vertices
            cx == last.x * Scale
            cy == last.y * Scale
        IN  /\ Len(last.calls) = 1
            /\ call.mode = "GL_TRIANGLE_FAN"
            /\ call.count = n + 2
            /\ DOMAIN v = 0..(n + 1)
            /\ v[0] = Vertex(cx, cy)
            /\ \A i \in 1..(n + 1) :
                /\ v[i].finite
                /\ last.angles[i] * n = i * FullTurn
                /\ v[i].x - cx = last.radius * Cos(last.angles[i])
                /\ v[i].y - cy = last.radius * Sin(last.angles[i])
                /\ Abs((v[i].x - cx) * (v[i].x - cx)
                       + (v[i].y - cy) * (v[i].y - cy)
                       - last.radius * last.radius * Scale * Scale)
                     <= last.radius * last.radius * Scale

\* C1 witness: a hexagon of radius 2 was drawn with 8 vertices
C1_Witness ==
    /\ last.op = "drawCircle"
    /\ last.radius = 2
    /\ last.sides = 6
    /\ last.calls[1].count = 8

\* C10: for sides n >= 1 the fan is closed: rim vertex n + 1 coincides with
\* rim vertex 1 one full turn later, rim vertices 1..n sit at n distinct
\* angular positions 2 pi / n apart, and the n + 2 vertices make n triangles.
C10_FanClosed ==
    (last.op = "drawCircle" /\ last.sides >= 1) =>
        LET n == last.sides
            call == last.calls[1]
            v == call.vertices
            a == last.angles
        IN  /\ DOMAIN v = 0..(n + 1)
            /\ v[n + 1] = v[1]
            /\ a[n + 1] - a[1] = FullTurn
            /\ \A i \in 1..n : (a[i + 1] - a[i]) * n = FullTurn
            /\ \A i \in 1..n, j \in 1..n :
                 i # j => a[i] % FullTurn # a[j] % FullTurn
            /\ call.count - 2 = n

\* C10 witness: a square was drawn and its rim vertex 5 equals rim vertex 1
C10_Witness ==
    /\ last.op = "drawCircle"
    /\ last.sides = 4
    /\ last.radius = 1
    /\ last.calls[1].vertices[5] = last.calls[1].vertices[1]
    /\ last.calls[1].vertices[2] # last.calls[1].vertices[1]

\* C7: drawCircle with sides = 0 or sides = 1 issues no draw call or draws
\* with a side count clamped to a minimum above 1, and never divides by a
\* side count of 0.
C7_DegenerateSidesHandled ==
    (last.op = "drawCircle" /\ last.sides \in {0, 1}) =>
        /\ ~last.divByZero
        /\ \/ last.calls = <<>>
           \/ last.calls[1].count - 2 >= 2

\* the glyph drawText looks up for character k (from 0) of the last text
GlyphOf(k) == CHARACTERS[last.text[k + 1] - 32]

\* bit b of glyph row i, b = 0 the most significant bit
GlyphBit(glyph, i, b) == (glyph[i + 1] \div (2 ^ (7 - b))) % 2

\* the horizontal coordinate of point k of the last drawText
PointX(k) == last.points[k].call.vertices[1].x

\* the vertical coordinate of point k of the last drawText
PointY(k) == last.points[k].call.vertices[1].y

\* C3: drawText draws points only where the glyph bit is 1: a set bit b of
\* row i gives size * size point calls at the horizontal coordinates
\* cellX + b * size + dx, 0 <= dx < size, a clear bit gives none, and a
\* character gives size * size points per set bit.
C3_PointsWhereBitsSet ==
    last.op = "drawText" =>
        LET size == last.size
            pts == last.points
        IN  /\ \A k \in DOMAIN pts :
                 pts[k].call.mode = "GL_POINTS" /\ pts[k].call.count = 1
            /\ \A c \in 0..(Len(last.text) - 1) :
                LET cellX == last.x + c * 8 * size
                    ofChar == {k \in DOMAIN pts : pts[k].c = c}
                IN  /\ \A i \in 0..7, b \in 0..7 :
                        LET idx == {k \in ofChar :
                                      pts[k].i = i /\ pts[k].b = b}
                        IN  IF GlyphBit(GlyphOf(c), i, b) = 1
                            THEN /\ Cardinality(idx) = size * size
                                 /\ \A dx \in 0..(size - 1) :
                                      Cardinality({k \in idx :
                                          PointX(k) = cellX + b * size + dx})
                                        = size
                            ELSE idx = {}
                    /\ Cardinality(ofChar) =
                         size * size *
                         Cardinality({ib \in (0..7) \X (0..7) :
                                GlyphBit(GlyphOf(c), ib[1], ib[2]) = 1})

\* C3 witness: "L" was drawn at size 2; its row 0 (bits 1 and 2) gave 8 points
C3_Witness ==
    /\ last.op = "drawText"
    /\ last.text = <<76>>
    /\ last.size = 2
    /\ Cardinality({k \in DOMAIN last.points : last.points[k].i = 0}) = 8

\* C4: drawText advances the cursor by 8 * size per character whatever the
\* glyph: character k is drawn in the cell whose left edge is x + k * 8 * size
\* and every character starts from the same vertical position.
C4_CursorAdvance ==
    last.op = "drawText" =>
        LET size == last.size
            pts == last.points
        IN  /\ Len(last.cursors) = Len(last.text)
            /\ \A k \in 0..(Len(last.text) - 1) :
                /\ last.cursors[k + 1].x = last.x + k * 8 * size
                /\ last.cursors[k + 1].ypos = last.cursors[1].ypos
            /\ \A k \in DOMAIN pts :
                /\ PointX(k) >= last.x + pts[k].c * 8 * size
                /\ PointX(k) < last.x + (pts[k].c + 1) * 8 * size

\* C4 witness: "_ L" was drawn at size 2 from x = 3; the 'L' after the blank
\* started at x = 35
C4_Witness ==
    /\ last.op = "drawText"
    /\ last.text = <<95, 32, 76>>
    /\ last.size = 2
    /\ last.x = 3
    /\ last.cursors[3].x = 35
    /\ \E k \in DOMAIN last.points : last.points[k].c = 2

\* C5: every point drawText draws has a vertical coordinate py with
\* y <= py <= y + 8 * size: no point is drawn below y, the bottom of the
\* characters.
C5_PointsInsideCell ==
    last.op = "drawText" =>
        \A k \in DOMAIN last.points :
            /\ PointY(k) >= last.y
            /\ PointY(k) <= last.y + 8 * last.size

\* C6: every point drawText(x, y, text, size, c) draws is drawn in colour c.
C6_TextColor ==
    last.op = "drawText" =>
        \A k \in DOMAIN last.points :
            last.points[k].call.color =
                <<(last.color \div 65536) % 256, (last.color \div 256) % 256,
                  last.color % 256>>

\* C9: when the most recent openWindow failed it made no context current,
\* configured no viewport or projection, and s_window is null.
C9_FailedOpenLeavesNull ==
    (last.op = "openWindow" /\ ~last.ok) =>
        /\ ~last.madeCurrent
        /\ ~last.configured
        /\ s_window = NULL

NextKeys == GetEvents \/ GetKey

SpecKeys == InitOpened /\ [][NextKeys]_vars

NextColor == SetColor

SpecColor == InitOpened /\ [][NextColor]_vars

NextCircle == DrawCircle

SpecCircle == InitOpened /\ [][NextCircle]_vars

NextText == DrawText \/ DrawPoint

SpecText == InitOpened /\ [][NextText]_vars

====
